---- MODULE Spec2Model ----
(***************************************************************************)
(* State-machine model of scripts/transcribe-local.py: the command-line    *)
(* driver that loads a faster-whisper model, transcribes one audio file,   *)
(* drains the lazy segment generator and prints one JSON document.         *)
(*                                                                         *)
(* The library (WhisperModel, model.transcribe, the segment generator) is  *)
(* a black box: its behaviour in one environment is the record `lib`,      *)
(* chosen in Init.  Strings that the driver only passes along are TLA+     *)
(* strings; segment texts, which the driver joins, are sequences of        *)
(* one-character strings.  Times are integers (the driver only copies      *)
(* them).                                                                  *)
(***************************************************************************)
EXTENDS Integers, Sequences, FiniteSets, TLC

VARIABLES
    argv,          \* sys.argv, argv[1] is the program name (sys.argv[0])
    lib,           \* what the library does in this environment
    run,           \* 1 for the first invocation, 2 for the repeated one
    first,         \* <<>>, or <<outcome of the first invocation>>
    pc,            \* position of the program
    audio_file,    \* __main__: audio_file
    language,      \* __main__: language
    models,        \* number of WhisperModel(...) constructions, this invocation
    calls,         \* arguments of the model.transcribe(...) calls, this invocation
    genPos,        \* number of segments the generator has yielded
    yielded,       \* library-side log: indices of the segments yielded, in order
    exhausted,     \* the generator has raised StopIteration
    info,          \* transcribe_audio: info
    segment_list,  \* transcribe_audio: segment_list
    full_text,     \* transcribe_audio: full_text
    result,        \* transcribe_audio: result / __main__: result
    exc,           \* str(e) of the exception being propagated
    stdout,        \* what was printed to sys.stdout, one entry per print
    stderr,        \* what was printed to sys.stderr, one entry per print
    exit_status    \* process exit status: 0 unless sys.exit(1) is called

vars == <<argv, lib, run, first, pc, audio_file, language, models, calls,
          genPos, yielded, exhausted, info, segment_list, full_text, result,
          exc, stdout, stderr, exit_status>>

(***************************************************************************)
(* Bounds and input domains                                                *)
(***************************************************************************)
MaxSegs == 3

BeamSize == 5

\* Segment objects the library may yield.  They carry more than the driver
\* captures (seek); times need not be ordered, texts may be empty or padded.
SegmentSamples ==
    { [id |-> 0, seek |-> 0, start |-> 0, end |-> 1, text |-> <<"a">>],
      [id |-> 1, seek |-> 0, start |-> 1, end |-> 2, text |-> <<" ", "b">>],
      [id |-> 1, seek |-> 3, start |-> 1, end |-> 1, text |-> <<>>],
      [id |-> 2, seek |-> 3, start |-> 2, end |-> 1, text |-> <<"a", " ">>] }

InfoSamples ==
    { [language |-> "ur", duration |-> 2, language_probability |-> 1],
      [language |-> "en", duration |-> 0, language_probability |-> 1] }

ArgvSamples ==
    { <<"transcribe-local.py">>,
      <<"transcribe-local.py", "naat.mp3">>,
      <<"transcribe-local.py", "naat.mp3", "en">>,
      <<"transcribe-local.py", "naat.mp3", "", "extra">> }

SeqsUpTo(S, n) == UNION { [1..k -> S] : k \in 0..n }

\* failStage: where the library raises; failAfter: for "iterate", the number
\* of segments yielded before the generator raises.
LibBehaviours ==
    { [segments |-> s, info |-> i, failStage |-> f, failAfter |-> k] :
        s \in SeqsUpTo(SegmentSamples, MaxSegs), i \in InfoSamples,
        f \in {"none", "load", "transcribe"}, k \in {0} }
    \cup
    { b \in [segments : SeqsUpTo(SegmentSamples, MaxSegs), info : InfoSamples,
             failStage : {"iterate"}, failAfter : 0..MaxSegs] :
        b.failAfter <= Len(b.segments) }

\* str(e) of the exception the library raises at each stage.
ExcMessage(stage) ==
    CASE stage = "load" -> "cannot load model"
      [] stage = "transcribe" -> "cannot open audio"
      [] OTHER -> "decoding failed"

(***************************************************************************)
(* Pure helpers                                                            *)
(***************************************************************************)
\* str.join: the items with sep between consecutive items.
RECURSIVE Join(_, _)
Join(sep, items) ==
    IF items = <<>> THEN <<>>
    ELSE IF Len(items) = 1 THEN items[1]
    ELSE items[1] \o sep \o Join(sep, Tail(items))

\* Mutant of Capture: the two time fields exchanged.
Capture_SwapTimes(segment) ==
    [id |-> segment.id, start |-> segment.end,
     end |-> segment.start, text |-> segment.text]

\* The dict literal of lines 41-46.
Capture(segment) ==
    [id |-> segment.id, start |-> segment.start,
     end |-> segment.end, text |-> segment.text]

\* json.dumps of one segment dict: members in insertion order.
DumpSegment(d) ==
    << <<"id", d.id>>, <<"start", d.start>>, <<"end", d.end>>, <<"text", d.text>> >>

\* json.dumps(result): one document, members in insertion order.
Dumps(r) ==
    << <<"language", r.language>>,
       <<"duration", r.duration>>,
       <<"text", r.text>>,
       <<"segments", [i \in 1..Len(r.segments) |-> DumpSegment(r.segments[i])]>> >>

UsageLine == <<"Usage: python transcribe-local.py <audio_file> [language]">>

NoResult == [language |-> "", duration |-> 0, text |-> <<>>, segments |-> <<>>]

NoInfo == [language |-> "", duration |-> 0, language_probability |-> 0]

(***************************************************************************)
(* Initial state: a fresh process, nothing printed, nothing bound.         *)
(***************************************************************************)
Init ==
    /\ argv \in ArgvSamples
    /\ lib \in LibBehaviours
    /\ run = 1
    /\ first = <<>>
    /\ pc = "main"
    /\ audio_file = ""
    /\ language = ""
    /\ models = 0
    /\ calls = <<>>
    /\ genPos = 0
    /\ yielded = <<>>
    /\ exhausted = FALSE
    /\ info = NoInfo
    /\ segment_list = <<>>
    /\ full_text = <<>>
    /\ result = NoResult
    /\ exc = ""
    /\ stdout = <<>>
    /\ stderr = <<>>
    /\ exit_status = 0

(***************************************************************************)
(* __main__, lines 58-71                                                   *)
(***************************************************************************)
\* Mutant of Usage: the usage message printed without file=sys.stderr.
Usage_ToStdout ==
    /\ pc = "main"
    /\ Len(argv) < 2
    /\ stdout' = Append(stdout, UsageLine)
    /\ exit_status' = 1
    /\ pc' = "exit"
    /\ UNCHANGED <<argv, lib, run, first, audio_file, language, models, calls,
                   genPos, yielded, exhausted, info, segment_list, full_text,
                   result, exc, stderr>>

\* Lines 59-61: too few arguments: usage message to stderr, sys.exit(1).
Usage ==
    /\ pc = "main"
    /\ Len(argv) < 2
    /\ stderr' = Append(stderr, UsageLine)
    /\ exit_status' = 1
    /\ pc' = "exit"
    /\ UNCHANGED <<argv, lib, run, first, audio_file, language, models, calls,
                   genPos, yielded, exhausted, info, segment_list, full_text,
                   result, exc, stdout>>

\* Mutant of ParseArgs: no "ur" default, the library is left to detect.
ParseArgs_AutoDetect ==
    /\ pc = "main"
    /\ ~(Len(argv) < 2)
    /\ audio_file' = argv[2]
    /\ language' = IF Len(argv) > 2 THEN argv[3] ELSE "auto"
    /\ pc' = "load"
    /\ UNCHANGED <<argv, lib, run, first, models, calls, genPos, yielded,
                   exhausted, info, segment_list, full_text, result, exc,
                   stdout, stderr, exit_status>>

\* Lines 59, 63-67: bind audio_file and language, enter the try block and
\* call transcribe_audio(audio_file, language).
ParseArgs ==
    /\ pc = "main"
    /\ ~(Len(argv) < 2)
    /\ audio_file' = argv[2]
    /\ language' = IF Len(argv) > 2 THEN argv[3] ELSE "ur"
    /\ pc' = "load"
    /\ UNCHANGED <<argv, lib, run, first, models, calls, genPos, yielded,
                   exhausted, info, segment_list, full_text, result, exc,
                   stdout, stderr, exit_status>>

\* Mutant of Except: the handler also prints what was collected so far.
Except_PartialOutput ==
    /\ pc = "except"
    /\ stderr' = Append(stderr, <<"Error: ", exc>>)
    /\ stdout' = Append(stdout, Dumps([language |-> info.language,
                                       duration |-> info.duration,
                                       text |-> Join(<<" ">>, full_text),
                                       segments |-> segment_list]))
    /\ exit_status' = 1
    /\ pc' = "exit"
    /\ UNCHANGED <<argv, lib, run, first, audio_file, language, models, calls,
                   genPos, yielded, exhausted, info, segment_list, full_text,
                   result, exc>>

\* Mutant of Except: the handler tries the whole transcription once more.
Except_Retry ==
    /\ pc = "except"
    /\ stderr' = Append(stderr, <<"Error: ", exc>>)
    /\ IF models < 2
       THEN /\ pc' = "load"
            /\ UNCHANGED exit_status
       ELSE /\ pc' = "exit"
            /\ exit_status' = 1
    /\ UNCHANGED <<argv, lib, run, first, audio_file, language, models, calls,
                   genPos, yielded, exhausted, info, segment_list, full_text,
                   result, exc, stdout>>

\* Lines 69-71: the one handler: "Error: <str(e)>" to stderr, sys.exit(1).
Except ==
    /\ pc = "except"
    /\ stderr' = Append(stderr, <<"Error: ", exc>>)
    /\ exit_status' = 1
    /\ pc' = "exit"
    /\ UNCHANGED <<argv, lib, run, first, audio_file, language, models, calls,
                   genPos, yielded, exhausted, info, segment_list, full_text,
                   result, exc, stdout>>

\* Mutant of PrintResult: the plain text is printed before the document.
PrintResult_TextFirst ==
    /\ pc = "print"
    /\ stdout' = stdout \o <<result.text, Dumps(result)>>
    /\ pc' = "exit"
    /\ UNCHANGED <<argv, lib, run, first, audio_file, language, models, calls,
                   genPos, yielded, exhausted, info, segment_list, full_text,
                   result, exc, stderr, exit_status>>

\* Line 68: print(json.dumps(result, ...)); the script then ends, status 0.
PrintResult ==
    /\ pc = "print"
    /\ stdout' = Append(stdout, Dumps(result))
    /\ pc' = "exit"
    /\ UNCHANGED <<argv, lib, run, first, audio_file, language, models, calls,
                   genPos, yielded, exhausted, info, segment_list, full_text,
                   result, exc, stderr, exit_status>>

(***************************************************************************)
(* transcribe_audio, lines 10-56                                           *)
(***************************************************************************)
\* Lines 21-25: progress line, then WhisperModel(...), which may raise.
LoadModel ==
    /\ pc = "load"
    /\ stderr' = Append(stderr, <<"Loading Whisper model...">>)
    /\ models' = models + 1
    /\ IF lib.failStage = "load"
       THEN /\ exc' = ExcMessage("load")
            /\ pc' = "except"
       ELSE /\ exc' = exc
            /\ pc' = "transcribe"
    /\ UNCHANGED <<argv, lib, run, first, audio_file, language, calls, genPos,
                   yielded, exhausted, info, segment_list, full_text, result,
                   stdout, exit_status>>

\* Lines 27-34: progress line, then model.transcribe(...), which may raise;
\* otherwise it returns a fresh generator and the info record.
Transcribe ==
    /\ pc = "transcribe"
    /\ stderr' = Append(stderr, <<"Transcribing: ", audio_file>>)
    /\ calls' = Append(calls, [audio |-> audio_file, language |-> language,
                               beam_size |-> BeamSize, word_timestamps |-> FALSE])
    /\ IF lib.failStage = "transcribe"
       THEN /\ exc' = ExcMessage("transcribe")
            /\ pc' = "except"
            /\ UNCHANGED info
       ELSE /\ exc' = exc
            /\ info' = lib.info
            /\ pc' = "lists"
    /\ UNCHANGED <<argv, lib, run, first, audio_file, language, models, genPos,
                   yielded, exhausted, segment_list, full_text, result, stdout,
                   exit_status>>

\* Mutant of InitLists: the accumulators are not rebound per call (as with
\* module-level or default-argument lists).
InitLists_Shared ==
    /\ pc = "lists"
    /\ pc' = "loop"
    /\ UNCHANGED <<argv, lib, run, first, audio_file, language, models, calls,
                   genPos, yielded, exhausted, info, segment_list, full_text,
                   result, exc, stdout, stderr, exit_status>>

\* Lines 37-38: the two accumulators are bound to fresh empty lists.
InitLists ==
    /\ pc = "lists"
    /\ segment_list' = <<>>
    /\ full_text' = <<>>
    /\ pc' = "loop"
    /\ UNCHANGED <<argv, lib, run, first, audio_file, language, models, calls,
                   genPos, yielded, exhausted, info, result, exc, stdout,
                   stderr, exit_status>>

\* Mutant of NextSegment: the dict is inserted at the front of segment_list.
NextSegment_Prepend ==
    /\ pc = "loop"
    /\ IF lib.failStage = "iterate" /\ lib.failAfter = genPos
       THEN /\ exc' = ExcMessage("iterate")
            /\ pc' = "except"
            /\ UNCHANGED <<genPos, yielded, exhausted, segment_list, full_text>>
       ELSE IF genPos < Len(lib.segments)
       THEN /\ genPos' = genPos + 1
            /\ yielded' = Append(yielded, genPos + 1)
            /\ segment_list' = <<Capture(lib.segments[genPos + 1])>> \o segment_list
            /\ full_text' = Append(full_text, lib.segments[genPos + 1].text)
            /\ UNCHANGED <<pc, exc, exhausted>>
       ELSE /\ exhausted' = TRUE
            /\ pc' = "build"
            /\ UNCHANGED <<genPos, yielded, segment_list, full_text, exc>>
    /\ UNCHANGED <<argv, lib, run, first, audio_file, language, models, calls,
                   info, result, stdout, stderr, exit_status>>

\* Mutant of NextSegment: the loop is left after the first segment (break).
NextSegment_Break ==
    /\ pc = "loop"
    /\ IF lib.failStage = "iterate" /\ lib.failAfter = genPos
       THEN /\ exc' = ExcMessage("iterate")
            /\ pc' = "except"
            /\ UNCHANGED <<genPos, yielded, exhausted, segment_list, full_text>>
       ELSE IF genPos < Len(lib.segments)
       THEN /\ genPos' = genPos + 1
            /\ yielded' = Append(yielded, genPos + 1)
            /\ segment_list' = Append(segment_list, Capture(lib.segments[genPos + 1]))
            /\ full_text' = Append(full_text, lib.segments[genPos + 1].text)
            /\ pc' = "build"
            /\ UNCHANGED <<exc, exhausted>>
       ELSE /\ exhausted' = TRUE
            /\ pc' = "build"
            /\ UNCHANGED <<genPos, yielded, segment_list, full_text, exc>>
    /\ UNCHANGED <<argv, lib, run, first, audio_file, language, models, calls,
                   info, result, stdout, stderr, exit_status>>

\* Lines 40-47: one next() on the generator.  It raises, or yields the next
\* segment (the loop body appends the dict and the text), or is exhausted.
NextSegment ==
    /\ pc = "loop"
    /\ IF lib.failStage = "iterate" /\ lib.failAfter = genPos
       THEN /\ exc' = ExcMessage("iterate")
            /\ pc' = "except"
            /\ UNCHANGED <<genPos, yielded, exhausted, segment_list, full_text>>
       ELSE IF genPos < Len(lib.segments)
       THEN /\ genPos' = genPos + 1
            /\ yielded' = Append(yielded, genPos + 1)
            /\ segment_list' = Append(segment_list, Capture(lib.segments[genPos + 1]))
            /\ full_text' = Append(full_text, lib.segments[genPos + 1].text)
            /\ UNCHANGED <<pc, exc, exhausted>>
       ELSE /\ exhausted' = TRUE
            /\ pc' = "build"
            /\ UNCHANGED <<genPos, yielded, segment_list, full_text, exc>>
    /\ UNCHANGED <<argv, lib, run, first, audio_file, language, models, calls,
                   info, result, stdout, stderr, exit_status>>

\* Mutant of BuildResult: the texts are joined with the empty string.
BuildResult_NoSeparator ==
    /\ pc = "build"
    /\ result' = [language |-> info.language,
                  duration |-> info.duration,
                  text |-> Join(<<>>, full_text),
                  segments |-> segment_list]
    /\ pc' = "print"
    /\ UNCHANGED <<argv, lib, run, first, audio_file, language, models, calls,
                   genPos, yielded, exhausted, info, segment_list, full_text,
                   exc, stdout, stderr, exit_status>>

\* Lines 49-56 (and the assignment of line 67): the result dict.
BuildResult ==
    /\ pc = "build"
    /\ result' = [language |-> info.language,
                  duration |-> info.duration,
                  text |-> Join(<<" ">>, full_text),
                  segments |-> segment_list]
    /\ pc' = "print"
    /\ UNCHANGED <<argv, lib, run, first, audio_file, language, models, calls,
                   genPos, yielded, exhausted, info, segment_list, full_text,
                   exc, stdout, stderr, exit_status>>

(***************************************************************************)
(* The program is run a second time on the same command line, against the  *)
(* same library behaviour.  Streams, exit status and library objects       *)
(* belong to the new process and are fresh.  The driver's names are        *)
(* unbound in a new process: the model leaves their old values in place,   *)
(* so that only the driver's own assignments give them their values.       *)
(***************************************************************************)
RunAgain ==
    /\ pc = "exit"
    /\ run = 1
    /\ run' = 2
    /\ first' = <<[stdout |-> stdout, exit_status |-> exit_status]>>
    /\ pc' = "main"
    /\ models' = 0
    /\ calls' = <<>>
    /\ genPos' = 0
    /\ yielded' = <<>>
    /\ exhausted' = FALSE
    /\ exc' = ""
    /\ stdout' = <<>>
    /\ stderr' = <<>>
    /\ exit_status' = 0
    /\ UNCHANGED <<argv, lib, audio_file, language, info, segment_list,
                   full_text, result>>

Next ==
    \/ Usage
    \/ ParseArgs
    \/ LoadModel
    \/ Transcribe
    \/ InitLists
    \/ NextSegment
    \/ BuildResult
    \/ PrintResult
    \/ Except
    \/ RunAgain

Spec == Init /\ [][Next]_vars

(***************************************************************************)
(* Vocabulary of the properties                                            *)
(***************************************************************************)
Terminated == pc = "exit"

\* The command line lacks the audio file argument.
UsageRun == Len(argv) < 2

\* The library raises somewhere in this invocation.
FailingRun == ~UsageRun /\ lib.failStage # "none"

\* Nothing raises: construction, transcription and iteration all complete.
SucceedingRun == ~UsageRun /\ lib.failStage = "none"

\* The result record of this invocation exists.
Built == pc = "print" \/ (Terminated /\ SucceedingRun)

ErrorLines == { i \in DOMAIN stderr : stderr[i][1] = "Error: " }

\* Position just before the i-th text in the space-joined string.
RECURSIVE Offset(_, _)
Offset(texts, i) ==
    IF i = 1 THEN 0 ELSE Offset(texts, i - 1) + Len(texts[i - 1]) + 1

\* start <= end in every segment, and starts never decrease along the array.
WellTimed(segs) ==
    /\ \A i \in DOMAIN segs : segs[i].start <= segs[i].end
    /\ \A i, j \in DOMAIN segs : i < j => segs[i].start <= segs[j].start

(***************************************************************************)
(* C1: invoked without the audio file argument, the program exits with     *)
(* status 1, prints the usage message to stderr and nothing to stdout,     *)
(* and never constructs the model or calls transcription.                  *)
(***************************************************************************)
C1_UsageError ==
    UsageRun =>
        /\ stdout = <<>>
        /\ models = 0
        /\ calls = <<>>
        /\ pc \in {"main", "exit"}
        /\ Terminated => exit_status = 1 /\ stderr = <<UsageLine>>

C1_Witness == UsageRun /\ Terminated /\ stderr # <<>>

(***************************************************************************)
(* C2: whenever the library raises (constructing the model, in the         *)
(* transcription call, or in the generator after any number of segments),  *)
(* the program exits with status 1, its last stderr line is                *)
(* "Error: <message>", that is the only Error line, and stdout stays       *)
(* empty throughout: no partial JSON is emitted.                           *)
(***************************************************************************)
C2_FailureReport ==
    FailingRun =>
        /\ stdout = <<>>
        /\ Terminated =>
              /\ exit_status = 1
              /\ stderr # <<>>
              /\ stderr[Len(stderr)] = <<"Error: ", ExcMessage(lib.failStage)>>
              /\ Cardinality(ErrorLines) = 1

C2_Witness ==
    /\ Terminated
    /\ lib.failStage = "iterate"
    /\ lib.failAfter >= 2
    /\ Len(segment_list) >= 2
    /\ ErrorLines # {}

(***************************************************************************)
(* C3: when nothing fails the program ends with status 0 and stdout holds  *)
(* exactly one JSON document whose keys are language, duration, text and   *)
(* segments; in every terminated run stdout is non-empty exactly when the  *)
(* exit status is 0.                                                       *)
(***************************************************************************)
C3_SuccessOutput ==
    Terminated =>
        /\ (stdout # <<>>) <=> (exit_status = 0)
        /\ SucceedingRun =>
              /\ exit_status = 0
              /\ Len(stdout) = 1
              /\ Len(stdout[1]) = 4
              /\ [i \in 1..4 |-> stdout[1][i][1]]
                     = <<"language", "duration", "text", "segments">>

C3_Witness == Terminated /\ SucceedingRun /\ stdout # <<>> /\ genPos >= 1

(***************************************************************************)
(* C4: the text field of the result is the texts of the result's segments  *)
(* array written one after the other in array order with exactly one       *)
(* space between consecutive texts, every text unchanged (empty and        *)
(* padded texts included); with no segments the text is empty and the      *)
(* segments array is empty.                                                *)
(***************************************************************************)
C4_TextIsSpaceJoined ==
    Built =>
        LET segs == result.segments
            texts == [i \in DOMAIN segs |-> segs[i].text]
            n == Len(segs)
        IN /\ n = Len(lib.segments)
           /\ n = 0 => result.text = <<>>
           /\ n > 0 => Len(result.text) = Offset(texts, n) + Len(texts[n])
           /\ \A i \in 1..n :
                 /\ \A k \in 1..Len(texts[i]) :
                       result.text[Offset(texts, i) + k] = texts[i][k]
                 /\ i < n =>
                       result.text[Offset(texts, i) + Len(texts[i]) + 1] = " "

C4_Witness ==
    /\ Built
    /\ Len(result.segments) >= 3
    /\ result.segments[1].text = <<"a", " ">>
    /\ result.segments[2].text = <<>>
    /\ result.segments[3].text = <<" ", "b">>

(***************************************************************************)
(* C5: the segments array of the result has exactly one entry per segment  *)
(* the decoder produced, in the decoder's order, each with exactly the     *)
(* keys id, start, end, text and that segment's values.                    *)
(***************************************************************************)
C5_SegmentsVerbatim ==
    Built =>
        /\ Len(result.segments) = Len(lib.segments)
        /\ \A i \in DOMAIN result.segments :
              /\ DOMAIN result.segments[i] = {"id", "start", "end", "text"}
              /\ result.segments[i].id = lib.segments[i].id
              /\ result.segments[i].start = lib.segments[i].start
              /\ result.segments[i].end = lib.segments[i].end
              /\ result.segments[i].text = lib.segments[i].text

C5_Witness ==
    /\ Built
    /\ Len(result.segments) >= 2
    /\ result.segments[1].id > result.segments[2].id
    /\ result.segments[1].text # result.segments[2].text

(***************************************************************************)
(* C6 as stated: in every emitted result each segment has start <= end     *)
(* and the starts never decrease along the array.                          *)
(***************************************************************************)
C6_EmittedWellTimed ==
    (Terminated /\ stdout # <<>>) => WellTimed(result.segments)

(***************************************************************************)
(* C6 amended: the driver neither checks nor repairs the times; whenever   *)
(* the sequence the decoder produced has start <= end in every segment     *)
(* and non-decreasing starts, so has the segments array of the emitted     *)
(* result.                                                                 *)
(***************************************************************************)
C6_TimingInherited ==
    (Built /\ WellTimed(lib.segments)) => WellTimed(result.segments)

C6_Witness ==
    /\ Terminated
    /\ stdout # <<>>
    /\ WellTimed(lib.segments)
    /\ Len(result.segments) >= 2
    /\ result.segments[1].start < result.segments[2].start
    /\ result.segments[1].start < result.segments[1].end

(***************************************************************************)
(* C7: every transcription call receives "ur" as its language when the     *)
(* command line gives no language, the given string when it gives one,     *)
(* and always beam width 5 and word timestamps off.                        *)
(***************************************************************************)
C7_CallArguments ==
    \A i \in DOMAIN calls :
        /\ Len(argv) = 2 => calls[i].language = "ur"
        /\ Len(argv) >= 3 => calls[i].language = argv[3]
        /\ calls[i].beam_size = 5
        /\ calls[i].word_timestamps = FALSE

C7_Witness == calls # <<>> /\ Len(argv) = 2 /\ lib.info.language # "ur"

(***************************************************************************)
(* C8: run a second time on the same command line against a library that   *)
(* behaves the same, the program ends with the same exit status and the    *)
(* same standard output as the first time.                                 *)
(***************************************************************************)
C8_SecondRunSame ==
    (run = 2 /\ Terminated) =>
        /\ Len(first) = 1
        /\ exit_status = first[1].exit_status
        /\ stdout = first[1].stdout

C8_Witness ==
    /\ run = 2
    /\ Terminated
    /\ stdout # <<>>
    /\ Len(result.segments) >= 2

(***************************************************************************)
(* C9: the generator yields its segments to the driver once each, in       *)
(* order, never starting over; it is exhausted before the result is built  *)
(* and before anything is written to stdout; and the phases come in the    *)
(* order load model, transcribe, consume segments, emit.                   *)
(***************************************************************************)
C9_SinglePassThenEmit ==
    /\ yielded = [i \in 1..genPos |-> i]
    /\ genPos <= Len(lib.segments)
    /\ Len(segment_list) = genPos \/ pc \in {"main", "load", "transcribe", "lists"}
    /\ (pc \in {"build", "print"} \/ stdout # <<>>) =>
           exhausted /\ genPos = Len(lib.segments)
    /\ calls # <<>> => models = 1
    /\ (genPos > 0 \/ exhausted) => Len(calls) = 1
    /\ pc = "transcribe" => models = 1 /\ calls = <<>>
    /\ pc \in {"lists", "loop"} => stdout = <<>> /\ ~exhausted

C9_Witness == pc = "print" /\ exhausted /\ genPos >= 2 /\ run = 1

(***************************************************************************)
(* C10: in one invocation the model is constructed at most once and        *)
(* transcription is called at most once; when the library raises, the      *)
(* next step is the handler, and the handler only reports and exits with   *)
(* status 1: nothing is constructed, called or consumed again.             *)
(***************************************************************************)
RaisesNow ==
    \/ pc = "load" /\ lib.failStage = "load"
    \/ pc = "transcribe" /\ lib.failStage = "transcribe"
    \/ pc = "loop" /\ lib.failStage = "iterate" /\ lib.failAfter = genPos

C10_SingleAttempt ==
    /\ [](models <= 1 /\ Len(calls) <= 1)
    /\ [][ /\ RaisesNow => pc' = "except"
           /\ pc = "except" =>
                 /\ pc' = "exit"
                 /\ exit_status' = 1
                 /\ UNCHANGED <<models, calls, genPos, yielded>> ]_vars

C10_Witness ==
    /\ Terminated
    /\ lib.failStage = "transcribe"
    /\ models = 1
    /\ Len(calls) = 1
    /\ exit_status = 1
====
